---- MODULE Spec2Model ----
(***************************************************************************)
(* A model of the orca actor-transition core of kanidm:                    *)
(*   tools/orca/src/model.rs  - TransitionAction, its TryFrom<i32>, and    *)
(*                              the four transition executors              *)
(*   tools/orca/src/state.rs  - State persistence (write_to_path,          *)
(*                              TryFrom<&Path>) and Model::as_dyn_object   *)
(* The Markov and Basic strategies (crate::models) are modelled from the   *)
(* design document, since their source is not part of the two files.       *)
(***************************************************************************)
EXTENDS Integers, Sequences, FiniteSets, TLC

VARIABLES
    \* ---- TransitionAction::try_from and its unit test (model.rs)
    ordinal,      \* the i32 handed to try_from
    decoded,      \* what try_from returned for it (NoResult before the call)
    testI,        \* loop variable of transition_action_try_from_test
    testPassed,   \* FALSE once one of the test's assertions has failed
    \* ---- transition executors (model.rs)
    now,          \* the monotonic clock read by Instant::now()
    frame,        \* per person: the suspended executor call, if any
    last,         \* the executor call that returned last: facade result, times, value
    invoked,      \* number of executor calls started
    returned,     \* number of executor calls that returned
    produced,     \* number of EventRecord values constructed
    \* ---- State persistence (state.rs)
    file,         \* the content at the path
    arg,          \* the State handed to the last write_to_path call
    wres,         \* what the last write_to_path returned
    wenv,         \* what the file system did during that call
    rres,         \* what the last State::try_from(path) returned
    renv,         \* what the file system did during that call
    completed,    \* the States whose write_to_path call returned Ok
    \* ---- Model::as_dyn_object and the strategies it builds (state.rs)
    personModel,  \* per runner slot: the Model description of its Person
    actor,        \* per runner slot: the Box holding its strategy object, if any
    heap,         \* the strategy objects on the heap
    built         \* per runner slot: what the last as_dyn_object call returned

enumVars    == <<ordinal, decoded, testI, testPassed>>
execVars    == <<now, frame, last, invoked, returned, produced>>
persistVars == <<file, arg, wres, wenv, rres, renv, completed>>
actorVars   == <<personModel, actor, heap, built>>
vars        == <<enumVars, execVars, persistVars, actorVars>>

\* Rust's Result and Option values.
Ok(v)    == [tag |-> "Ok", val |-> v]
Err(e)   == [tag |-> "Err", err |-> e]
Some(v)  == [tag |-> "Some", val |-> v]
None     == [tag |-> "None"]
NoResult == [tag |-> "NoResult"]

Persons == {"p1", "p2"}

(***************************************************************************)
(* TransitionAction (model.rs:11-31)                                       *)
(***************************************************************************)
TransitionAction == {"Login", "Logout", "ReadProperty", "WriteProperty"}

\* #[derive(EnumCount)]: the number of variants.
COUNT == Cardinality(TransitionAction)

I32Max == 2147483647
I32Min == -I32Max - 1

\* A discriminant table with Logout and ReadProperty exchanged.
AsI32Swapped(a) ==
    CASE a = "Login"         -> 0
      [] a = "Logout"        -> 2
      [] a = "ReadProperty"  -> 1
      [] a = "WriteProperty" -> 3

\* `variant as i32`: the explicit discriminants of the enum.
AsI32(a) ==
    CASE a = "Login"         -> 0
      [] a = "Logout"        -> 1
      [] a = "ReadProperty"  -> 2
      [] a = "WriteProperty" -> 3

\* try_from with the WriteProperty arm forgotten.
try_from_missing_arm(v) ==
    CASE v = AsI32("Login")        -> Ok("Login")
      [] v = AsI32("Logout")       -> Ok("Logout")
      [] v = AsI32("ReadProperty") -> Ok("ReadProperty")
      [] OTHER                     -> Err("Unit")

\* try_from that clamps an out-of-range ordinal instead of rejecting it.
try_from_clamping(v) ==
    CASE v = AsI32("Login")         -> Ok("Login")
      [] v = AsI32("Logout")        -> Ok("Logout")
      [] v = AsI32("ReadProperty")  -> Ok("ReadProperty")
      [] v = AsI32("WriteProperty") -> Ok("WriteProperty")
      [] v > AsI32("WriteProperty") -> Ok("WriteProperty")
      [] OTHER                      -> Err("Unit")

\* impl TryFrom<i32> for TransitionAction: the arms are tried in order; the
\* error type is (), written "Unit".
try_from(v) ==
    CASE v = AsI32("Login")         -> Ok("Login")
      [] v = AsI32("Logout")        -> Ok("Logout")
      [] v = AsI32("ReadProperty")  -> Ok("ReadProperty")
      [] v = AsI32("WriteProperty") -> Ok("WriteProperty")
      [] OTHER                      -> Err("Unit")

MaxOrdinal == 40

\* The i32 values tried: a window around the valid range and both ends of i32.
Ordinals == (-MaxOrdinal .. MaxOrdinal) \cup {I32Min, I32Min + 1, I32Max - 1, I32Max}

EnumInit ==
    /\ ordinal \in Ordinals
    /\ decoded = NoResult
    /\ testI = 0
    /\ testPassed = TRUE

EnumIdle ==
    /\ ordinal = 0
    /\ decoded = NoResult
    /\ testI = 0
    /\ testPassed = TRUE

\* One call TransitionAction::try_from(ordinal).
Decode ==
    /\ decoded = NoResult
    /\ decoded' = try_from(ordinal)
    /\ UNCHANGED <<ordinal, testI, testPassed>>

\* One iteration of the loop of transition_action_try_from_test
\* (model.rs:216-223): both assertions on i.
TestStep ==
    /\ testI < COUNT
    /\ LET r == try_from(testI)
       IN  testPassed' = (testPassed /\ r.tag = "Ok" /\ AsI32(r.val) = testI)
    /\ testI' = testI + 1
    /\ UNCHANGED <<ordinal, decoded>>

EnumNext ==
    \/ Decode /\ UNCHANGED <<execVars, persistVars, actorVars>>
    \/ TestStep /\ UNCHANGED <<execVars, persistVars, actorVars>>

(***************************************************************************)
(* Transition executors (model.rs:47-209)                                  *)
(***************************************************************************)
TransitionResult == {"Ok", "Error"}

EventDetail == {"Authentication", "PersonGet", "Logout", "Error"}

\* What the directory client call resolves to: Ok(_) or Err(client_err).
FacadeResults == {"Ok", "Err"}

Executors == {"login", "person_get", "person_set", "logout"}

MaxClock == 2
MaxCalls == 3

EventRecord(start, duration, details) ==
    [start |-> start, duration |-> duration, details |-> details]

\* The subtraction taken the wrong way round: start.duration_since(end).
ElapsedSwapped(start, end) == IF start >= end THEN start - end ELSE 0

\* let duration = end.duration_since(start): saturating on a monotonic clock.
Elapsed(start, end) == IF end >= start THEN end - start ELSE 0

\* The final match of login (model.rs:82-102).
login_match(result, start, duration) ==
    IF result = "Ok"
    THEN Ok(<<"Ok", EventRecord(start, duration, "Authentication")>>)
    ELSE Ok(<<"Error", EventRecord(start, duration, "Error")>>)

\* A person_get whose error arm hands the client error to the caller.
person_get_match_propagating(result, start, duration) ==
    IF result = "Ok"
    THEN Ok(<<"Ok", EventRecord(start, duration, "PersonGet")>>)
    ELSE Err("client_err")

\* The final match of person_get (model.rs:118-138).
person_get_match(result, start, duration) ==
    IF result = "Ok"
    THEN Ok(<<"Ok", EventRecord(start, duration, "PersonGet")>>)
    ELSE Ok(<<"Error", EventRecord(start, duration, "Error")>>)

\* The final match of person_set (model.rs:155-175): its success arm builds
\* EventDetail::PersonGet (model.rs:161).
person_set_match(result, start, duration) ==
    IF result = "Ok"
    THEN Ok(<<"Ok", EventRecord(start, duration, "PersonGet")>>)
    ELSE Ok(<<"Error", EventRecord(start, duration, "Error")>>)

\* The final match of logout (model.rs:188-208).
logout_match(result, start, duration) ==
    IF result = "Ok"
    THEN Ok(<<"Ok", EventRecord(start, duration, "Logout")>>)
    ELSE Ok(<<"Error", EventRecord(start, duration, "Error")>>)

Idle == [tag |-> "Idle"]

\* The executor up to its .await: `let start = Instant::now()` and the
\* directory client call is issued; the future is suspended.
Call(p, fn) ==
    /\ frame[p] = Idle
    /\ invoked < MaxCalls
    /\ frame' = [frame EXCEPT ![p] = [tag |-> "Awaiting", fn |-> fn, start |-> now]]
    /\ invoked' = invoked + 1
    /\ UNCHANGED <<now, last, returned, produced>>

\* The executor from its .await on: the client call resolved to `result`,
\* `let end = Instant::now()`, the duration, and the value returned.
Resume(p, fn, result, value) ==
    /\ frame[p].tag = "Awaiting"
    /\ frame[p].fn = fn
    /\ frame' = [frame EXCEPT ![p] = Idle]
    /\ last' = [tag |-> "Returned", person |-> p, fn |-> fn, facade |-> result,
                start |-> frame[p].start, end |-> now, value |-> value]
    /\ returned' = returned + 1
    /\ produced' = IF value.tag = "Ok" THEN produced + 1 ELSE produced
    /\ UNCHANGED <<now, invoked>>

login(p) ==
    \/ Call(p, "login")
    \/ \E result \in FacadeResults :
         Resume(p, "login", result,
                login_match(result, frame[p].start, Elapsed(frame[p].start, now)))

person_get(p) ==
    \/ Call(p, "person_get")
    \/ \E result \in FacadeResults :
         Resume(p, "person_get", result,
                person_get_match(result, frame[p].start, Elapsed(frame[p].start, now)))

person_set(p) ==
    \/ Call(p, "person_set")
    \/ \E result \in FacadeResults :
         Resume(p, "person_set", result,
                person_set_match(result, frame[p].start, Elapsed(frame[p].start, now)))

logout(p) ==
    \/ Call(p, "logout")
    \/ \E result \in FacadeResults :
         Resume(p, "logout", result,
                logout_match(result, frame[p].start, Elapsed(frame[p].start, now)))

\* Time passes on the monotonic clock.
Tick ==
    /\ now < MaxClock
    /\ now' = now + 1
    /\ UNCHANGED <<frame, last, invoked, returned, produced>>

ExecInit ==
    /\ now = 0
    /\ frame = [p \in Persons |-> Idle]
    /\ last = NoResult
    /\ invoked = 0
    /\ returned = 0
    /\ produced = 0

ExecNext ==
    \/ \E p \in Persons : login(p) /\ UNCHANGED <<enumVars, persistVars, actorVars>>
    \/ \E p \in Persons : person_get(p) /\ UNCHANGED <<enumVars, persistVars, actorVars>>
    \/ \E p \in Persons : person_set(p) /\ UNCHANGED <<enumVars, persistVars, actorVars>>
    \/ \E p \in Persons : logout(p) /\ UNCHANGED <<enumVars, persistVars, actorVars>>
    \/ Tick /\ UNCHANGED <<enumVars, persistVars, actorVars>>

(***************************************************************************)
(* The persisted data model (state.rs:14-22, 54-74, 99-112)                *)
(***************************************************************************)
\* A String is a sequence of characters; two of them need escaping in JSON.
Quote     == "\""
Backslash == "\\"

Str(c) == <<c>>

\* f64 values, by class: finite ones (a few probabilities) and non-finite ones.
FiniteF64    == {"0.0", "0.25", "0.5", "0.75", "1.0"}
NonFiniteF64 == {"NaN", "inf"}
F64          == FiniteF64 \cup NonFiniteF64

\* enum Flag (state.rs:55-57)
Flag == {"DisableAllPersonsMFAPolicy"}

\* enum PreflightState (state.rs:60-63)
PreflightState == {"Present", "Absent"}

\* DISTR_MATRIX_SIZE (imported at state.rs:3): the flattened N x N matrix.
DISTR_MATRIX_SIZE == COUNT * COUNT

\* enum Model (state.rs:66-74)
Basic == [type |-> "Basic"]

Markov(dm, seed, nd) ==
    [type |-> "Markov", distributions_matrix |-> dm, rng_seed |-> seed,
     normal_dist_mean_and_std_dev |-> nd]

\* enum Credential (state.rs:100-102)
Password(plain) == [type |-> "Password", plain |-> plain]

\* struct Person (state.rs:105-112); member_of is a BTreeSet<String>.
Person(ps, username, display_name, member_of, credential, model) ==
    [preflight_state |-> ps, username |-> username, display_name |-> display_name,
     member_of |-> member_of, credential |-> credential, model |-> model]

\* struct State (state.rs:15-22)
State(profile, flags, persons) ==
    [profile |-> profile, preflight_flags |-> flags, persons |-> persons]

(***************************************************************************)
(* serde_json::to_writer on a State: the document as a sequence of tokens. *)
(* A token is <<kind, payload>>; an object key carries its colon, commas   *)
(* are implied. Enums use serde's default (external) tagging, since the    *)
(* derives on state.rs carry no serde attribute.                           *)
(***************************************************************************)
Punct(c)  == <<"punct", <<c>>>>
Key(k)    == <<"key", <<k>>>>
Null      == <<"null", <<>>>>
NumTok(n) == <<"num", <<n>>>>
StrTok(s) == <<"str", s>>

RECURSIVE Escape(_)
\* A string's characters between the quotes: a quote or a backslash gets a
\* backslash in front.
Escape(s) ==
    IF s = <<>> THEN <<>>
    ELSE (IF Head(s) \in {Quote, Backslash} THEN <<Backslash, Head(s)>> ELSE <<Head(s)>>)
         \o Escape(Tail(s))

RECURSIVE Concat(_)
Concat(seqs) == IF seqs = <<>> THEN <<>> ELSE Head(seqs) \o Concat(Tail(seqs))

SerString(s) == <<StrTok(Escape(s))>>

\* A unit variant is written as its name, a JSON string.
SerUnit(name) == <<StrTok(<<name>>)>>

\* serde_json writes a non-finite f64 as null.
SerF64(f) == IF f \in FiniteF64 THEN <<NumTok(f)>> ELSE <<Null>>

SerArray(items) == <<Punct("[")>> \o Concat(items) \o <<Punct("]")>>

\* The group names in the order of Ord for String.
GroupOrder == <<Str("g"), Str("h")>>

\* A BTreeSet<String> is written as an array in ascending order.
SerMemberOf(set) ==
    LET ordered == SelectSeq(GroupOrder, LAMBDA g : g \in set)
    IN  SerArray([i \in 1..Len(ordered) |-> SerString(ordered[i])])

SerOptionU64(o) == IF o.tag = "None" THEN <<Null>> ELSE <<NumTok(o.val)>>

SerOptionPair(o) ==
    IF o.tag = "None" THEN <<Null>>
    ELSE SerArray(<<SerF64(o.val[1]), SerF64(o.val[2])>>)

SerModel(m) ==
    IF m.type = "Basic" THEN SerUnit("Basic")
    ELSE <<Punct("{"), Key("Markov"), Punct("{"), Key("distributions_matrix")>>
         \o SerArray([i \in 1..Len(m.distributions_matrix) |->
                        SerF64(m.distributions_matrix[i])])
         \o <<Key("rng_seed")>> \o SerOptionU64(m.rng_seed)
         \o <<Key("normal_dist_mean_and_std_dev")>>
         \o SerOptionPair(m.normal_dist_mean_and_std_dev)
         \o <<Punct("}"), Punct("}")>>

SerCredential(c) ==
    <<Punct("{"), Key("Password"), Punct("{"), Key("plain")>>
    \o SerString(c.plain) \o <<Punct("}"), Punct("}")>>

SerPerson(p) ==
    <<Punct("{"), Key("preflight_state")>> \o SerUnit(p.preflight_state)
    \o <<Key("username")>> \o SerString(p.username)
    \o <<Key("display_name")>> \o SerString(p.display_name)
    \o <<Key("member_of")>> \o SerMemberOf(p.member_of)
    \o <<Key("credential")>> \o SerCredential(p.credential)
    \o <<Key("model")>> \o SerModel(p.model)
    \o <<Punct("}")>>

\* Profile belongs to crate::profile; here it is one opaque value.
SerProfile(pr) == <<<<"profile", <<pr>>>>>>

\* #[derive(Serialize)] for State: the fields in declaration order.
Serialize(s) ==
    <<Punct("{"), Key("profile")>> \o SerProfile(s.profile)
    \o <<Key("preflight_flags")>>
    \o SerArray([i \in 1..Len(s.preflight_flags) |-> SerUnit(s.preflight_flags[i])])
    \o <<Key("persons")>>
    \o SerArray([i \in 1..Len(s.persons) |-> SerPerson(s.persons[i])])
    \o <<Punct("}")>>

(***************************************************************************)
(* serde_json::from_reader into a State: a recursive-descent reading of    *)
(* the token sequence. A parse step yields the value and the position      *)
(* after it, or fails. Object keys are read in the order to_writer writes  *)
(* them, which is the order of every document write_to_path produces.      *)
(***************************************************************************)
U64 == {"7", "42"}

Parsed(v, i) == [ok |-> TRUE, val |-> v, next |-> i]
Failed       == [ok |-> FALSE]

TokAt(toks, i) == IF i \in 1..Len(toks) THEN toks[i] ELSE <<"eof", <<>>>>

\* The tokens toks[i..] start with `expected`: the position after them, or 0.
Skip(toks, i, expected) ==
    IF /\ i >= 1
       /\ i + Len(expected) - 1 <= Len(toks)
       /\ \A k \in 1..Len(expected) : toks[i + k - 1] = expected[k]
    THEN i + Len(expected)
    ELSE 0

RECURSIVE WellEscaped(_)
WellEscaped(e) ==
    IF e = <<>> THEN TRUE
    ELSE IF Head(e) = Backslash
         THEN Len(e) >= 2 /\ e[2] \in {Quote, Backslash} /\ WellEscaped(Tail(Tail(e)))
         ELSE Head(e) # Quote /\ WellEscaped(Tail(e))

RECURSIVE Unescape(_)
Unescape(e) ==
    IF e = <<>> THEN <<>>
    ELSE IF Head(e) = Backslash
         THEN <<e[2]>> \o Unescape(Tail(Tail(e)))
         ELSE <<Head(e)>> \o Unescape(Tail(e))

\* Sequencing of parse steps: step F runs on the outcome r of the step
\* before it, unless that step failed.
Bind(r, F(_)) == CHOOSE y \in {IF x.ok THEN F(x) ELSE Failed : x \in {r}} : TRUE

ParseString(toks, i) ==
    Bind(Parsed(TokAt(toks, i), i), LAMBDA t :
        IF t.val[1] = "str" /\ WellEscaped(t.val[2])
        THEN Parsed(Unescape(t.val[2]), t.next + 1) ELSE Failed)

\* A unit variant: a string that names one of the enum's variants.
ParseUnit(toks, i, variants) ==
    Bind(Parsed(TokAt(toks, i), i), LAMBDA t :
        IF t.val[1] = "str" /\ Len(t.val[2]) = 1 /\ t.val[2][1] \in variants
        THEN Parsed(t.val[2][1], t.next + 1) ELSE Failed)

\* An f64 must be a number: null is refused.
ParseF64(toks, i) ==
    Bind(Parsed(TokAt(toks, i), i), LAMBDA t :
        IF t.val[1] = "num" /\ t.val[2][1] \in FiniteF64
        THEN Parsed(t.val[2][1], t.next + 1) ELSE Failed)

ParseOptionU64(toks, i) ==
    Bind(Parsed(TokAt(toks, i), i), LAMBDA t :
        IF t.val[1] = "null" THEN Parsed(None, t.next + 1)
        ELSE IF t.val[1] = "num" /\ t.val[2][1] \in U64
             THEN Parsed(Some(t.val[2][1]), t.next + 1)
             ELSE Failed)

\* The token `tok` at position r.next: r with the position moved past it.
Expect(toks, r, tok) ==
    IF TokAt(toks, r.next) = tok THEN Parsed(r.val, r.next + 1) ELSE Failed

RECURSIVE ParseF64s(_, _, _)
\* n more numbers after those gathered in r.val: the elements of a
\* fixed-size array or of a tuple.
ParseF64s(toks, r, n) ==
    IF n = 0 THEN r
    ELSE Bind(ParseF64(toks, r.next), LAMBDA e :
             ParseF64s(toks, Parsed(Append(r.val, e.val), e.next), n - 1))

ParseF64Array(toks, i, n) ==
    Bind(Expect(toks, Parsed(<<>>, i), Punct("[")), LAMBDA open :
    Bind(ParseF64s(toks, open, n), LAMBDA elems :
        Expect(toks, elems, Punct("]"))))

ParseOptionPair(toks, i) ==
    IF TokAt(toks, i)[1] = "null" THEN Parsed(None, i + 1)
    ELSE Bind(ParseF64Array(toks, i, 2), LAMBDA pair : Parsed(Some(pair.val), pair.next))

RECURSIVE ParseStrings(_, _)
\* The elements of an array of strings up to its "]", gathered into a set.
ParseStrings(toks, r) ==
    IF TokAt(toks, r.next) = Punct("]") THEN Parsed(r.val, r.next + 1)
    ELSE Bind(ParseString(toks, r.next), LAMBDA e :
             ParseStrings(toks, Parsed(r.val \cup {e.val}, e.next)))

ParseMemberOf(toks, i) ==
    Bind(Expect(toks, Parsed({}, i), Punct("[")), LAMBDA open : ParseStrings(toks, open))

ParseModel(toks, i) ==
    IF TokAt(toks, i) = StrTok(<<"Basic">>) THEN Parsed(Basic, i + 1)
    ELSE
    Bind(ParseF64Array(toks, Skip(toks, i, <<Punct("{"), Key("Markov"), Punct("{"),
                                             Key("distributions_matrix")>>),
                       DISTR_MATRIX_SIZE), LAMBDA dm :
    Bind(ParseOptionU64(toks, Skip(toks, dm.next, <<Key("rng_seed")>>)), LAMBDA seed :
    Bind(ParseOptionPair(toks, Skip(toks, seed.next,
                                    <<Key("normal_dist_mean_and_std_dev")>>)), LAMBDA nd :
    Bind(Expect(toks, nd, Punct("}")), LAMBDA c1 :
    Bind(Expect(toks, c1, Punct("}")), LAMBDA c2 :
        Parsed(Markov(dm.val, seed.val, nd.val), c2.next))))))

ParseCredential(toks, i) ==
    Bind(ParseString(toks, Skip(toks, i, <<Punct("{"), Key("Password"), Punct("{"),
                                           Key("plain")>>)), LAMBDA plain :
    Bind(Expect(toks, plain, Punct("}")), LAMBDA c1 :
    Bind(Expect(toks, c1, Punct("}")), LAMBDA c2 :
        Parsed(Password(plain.val), c2.next))))

ParsePerson(toks, i) ==
    Bind(ParseUnit(toks, Skip(toks, i, <<Punct("{"), Key("preflight_state")>>),
                   PreflightState), LAMBDA ps :
    Bind(ParseString(toks, Skip(toks, ps.next, <<Key("username")>>)), LAMBDA un :
    Bind(ParseString(toks, Skip(toks, un.next, <<Key("display_name")>>)), LAMBDA dn :
    Bind(ParseMemberOf(toks, Skip(toks, dn.next, <<Key("member_of")>>)), LAMBDA mo :
    Bind(ParseCredential(toks, Skip(toks, mo.next, <<Key("credential")>>)), LAMBDA cr :
    Bind(ParseModel(toks, Skip(toks, cr.next, <<Key("model")>>)), LAMBDA md :
    Bind(Expect(toks, md, Punct("}")), LAMBDA close :
        Parsed(Person(ps.val, un.val, dn.val, mo.val, cr.val, md.val), close.next))))))))

RECURSIVE ParsePersons(_, _)
ParsePersons(toks, r) ==
    IF TokAt(toks, r.next) = Punct("]") THEN Parsed(r.val, r.next + 1)
    ELSE Bind(ParsePerson(toks, r.next), LAMBDA e :
             ParsePersons(toks, Parsed(Append(r.val, e.val), e.next)))

RECURSIVE ParseFlags(_, _)
ParseFlags(toks, r) ==
    IF TokAt(toks, r.next) = Punct("]") THEN Parsed(r.val, r.next + 1)
    ELSE Bind(ParseUnit(toks, r.next, Flag), LAMBDA e :
             ParseFlags(toks, Parsed(Append(r.val, e.val), e.next)))

ParseProfile(toks, i) ==
    Bind(Parsed(TokAt(toks, i), i), LAMBDA t :
        IF t.val[1] = "profile" THEN Parsed(t.val[2][1], t.next + 1) ELSE Failed)

\* #[derive(Deserialize)] for State, then serde_json's check that nothing
\* but the end of the input follows the value.
ParseState(toks) ==
    Bind(ParseProfile(toks, Skip(toks, 1, <<Punct("{"), Key("profile")>>)), LAMBDA pr :
    Bind(ParseFlags(toks, Parsed(<<>>, Skip(toks, pr.next, <<Key("preflight_flags"),
                                                            Punct("[")>>))), LAMBDA fl :
    Bind(ParsePersons(toks, Parsed(<<>>, Skip(toks, fl.next, <<Key("persons"),
                                                              Punct("[")>>))), LAMBDA pe :
    Bind(Expect(toks, pe, Punct("}")), LAMBDA close :
        IF close.next = Len(toks) + 1
        THEN Parsed(State(pr.val, fl.val, pe.val), close.next)
        ELSE Failed))))

Deserialize(toks) ==
    CHOOSE y \in {IF r.ok THEN Ok(r.val) ELSE Err("json_err") : r \in {ParseState(toks)}} :
        TRUE

(***************************************************************************)
(* The States written in the checks                                        *)
(***************************************************************************)
MaxFlags   == 1
MaxPersons == 1

Profiles == {"profile_a", "profile_b"}

\* Row i of the flattened matrix is entries COUNT*i+1 .. COUNT*i+COUNT.
\* The rows are those of Login, Logout, ReadProperty, WriteProperty.
CycleMatrix ==
    <<"0.0", "0.0", "1.0", "0.0",
      "1.0", "0.0", "0.0", "0.0",
      "0.0", "0.0", "0.0", "1.0",
      "0.0", "1.0", "0.0", "0.0">>

MixedMatrix ==
    <<"0.0", "0.5", "0.25", "0.25",
      "1.0", "0.0", "0.0", "0.0",
      "0.0", "0.25", "0.5", "0.25",
      "0.25", "0.25", "0.25", "0.25">>

NaNMatrix == [i \in 1..DISTR_MATRIX_SIZE |-> IF i = 1 THEN "NaN" ELSE CycleMatrix[i]]

ValidModels ==
    {Basic,
     Markov(CycleMatrix, None, None),
     Markov(CycleMatrix, Some("7"), Some(<<"0.5", "1.0">>)),
     Markov(MixedMatrix, Some("42"), None),
     Markov(MixedMatrix, None, Some(<<"0.25", "0.0">>))}

\* Descriptions that hold a non-finite f64.
NonFiniteModels ==
    {Markov(NaNMatrix, None, None),
     Markov(CycleMatrix, None, Some(<<"inf", "1.0">>))}

BasePerson == Person("Present", <<"a">>, <<"a">>, {}, Password(<<"x">>), Basic)

\* The persons written: the base person with one field changed at a time.
PersonSet ==
    {BasePerson,
     [BasePerson EXCEPT !.preflight_state = "Absent"],
     [BasePerson EXCEPT !.username = <<"b", Quote>>],
     [BasePerson EXCEPT !.display_name = <<Backslash, "b">>],
     [BasePerson EXCEPT !.member_of = {Str("g")}],
     [BasePerson EXCEPT !.member_of = {Str("g"), Str("h")}],
     [BasePerson EXCEPT !.credential = Password(<<Quote, Backslash>>)]}
    \cup {[BasePerson EXCEPT !.model = m] : m \in ValidModels \cup NonFiniteModels}

SeqsUpTo(S, n) == UNION {[1..k -> S] : k \in 0..n}

\* Every State written in the round-trip check.
States ==
    {State(pr, fl, pe) : pr \in Profiles, fl \in SeqsUpTo(Flag, MaxFlags),
                         pe \in SeqsUpTo(PersonSet, MaxPersons)}

FiniteModel(m) ==
    \/ m.type = "Basic"
    \/ /\ \A i \in 1..Len(m.distributions_matrix) : m.distributions_matrix[i] \in FiniteF64
       /\ \/ m.normal_dist_mean_and_std_dev.tag = "None"
          \/ \A i \in 1..2 : m.normal_dist_mean_and_std_dev.val[i] \in FiniteF64

\* A valid State: every f64 in it is a finite number.
ValidState(s) == \A i \in 1..Len(s.persons) : FiniteModel(s.persons[i].model)

Alice ==
    Person("Present", <<"a">>, <<"a">>, {}, Password(<<"x">>), Basic)
Carol ==
    Person("Absent", <<"c">>, <<"c">>, {}, Password(<<"y">>), Basic)
Bob ==
    Person("Present", <<"b", Quote>>, <<"b">>, {Str("g"), Str("h")},
           Password(<<Backslash>>), Markov(CycleMatrix, Some("7"), Some(<<"0.5", "1.0">>)))

\* The States written, in any order and any number of times, in the check of
\* sequences of writes. Two of them have documents of the same shape.
SeqStates ==
    {State("profile_a", <<"DisableAllPersonsMFAPolicy">>, <<Alice>>),
     State("profile_b", <<"DisableAllPersonsMFAPolicy">>, <<Carol>>),
     State("profile_a", <<>>, <<Bob>>)}

(***************************************************************************)
(* State::write_to_path and TryFrom<&Path> for State (state.rs:24-52)      *)
(***************************************************************************)
Absent       == [exists |-> FALSE, data |-> <<>>]
Content(d)   == [exists |-> TRUE, data |-> d]

\* An open for writing that keeps the old content (no O_TRUNC).
OpenedWithoutTruncate(old) == Content(old.data)

\* std::fs::File::create(path): the file exists and is empty.
Created(old) == Content(<<>>)

\* Writing `data` from offset 0 into an open file.
Overwrite(f, data) ==
    Content(data \o SubSeq(f.data, Len(data) + 1, Len(f.data)))

\* The closures handed to map_err; each ignores the error it is given.
create_map_err(io_err)        == "Io"
to_writer_map_err(json_err)   == "SerdeJson"
open_map_err_as_json(io_err)  == "SerdeJson"
open_map_err(io_err)          == "Io"
from_reader_map_err(json_err) == "SerdeJson"

\* What the file system can do during write_to_path(s): refuse to create the
\* file, fail a write after k tokens, or take the whole document.
\* What the file system can do during write_to_path of the document `doc`:
\* refuse to create the file, fail a write after k tokens, or take it all.
WriteFaults == {"create_failed", "write_failed"}

WriteEnvs(doc, faults) ==
    {[kind |-> "written", at |-> Len(doc)]}
    \cup {[kind |-> "create_failed", at |-> 0] : x \in faults \cap {"create_failed"}}
    \cup {[kind |-> "write_failed", at |-> k] :
            k \in IF "write_failed" \in faults THEN 0..(Len(doc) - 1) ELSE {}}

\* write_to_path(&self, path) with self = s, under one of the `faults` or none.
write_to_path(s, faults) ==
    \E doc \in {Serialize(s)} : \E env \in WriteEnvs(doc, faults) :
      /\ arg' = s
      /\ wenv' = env.kind
      /\ rres' = NoResult
      /\ renv' = "none"
      /\ IF env.kind = "create_failed"
         THEN /\ wres' = Err(create_map_err("io_err"))
              /\ UNCHANGED <<file, completed>>
         ELSE /\ file' = Overwrite(Created(file), SubSeq(doc, 1, env.at))
              /\ IF env.kind = "write_failed"
                 THEN /\ wres' = Err(to_writer_map_err("json_err"))
                      /\ UNCHANGED completed
                 ELSE /\ wres' = Ok("Unit")
                      /\ completed' = completed \cup {s}

\* What the file system can do during State::try_from(path).
ReadEnvs == {"open_failed", "read_failed", "read_ok"}

\* serde_json::from_reader(input): an I/O error of the reader is an error
\* of from_reader.
from_reader(f, env) ==
    IF env = "read_failed" THEN Err("json_err") ELSE Deserialize(f.data)

\* State::try_from(path).
State_try_from(env) ==
    /\ file.exists \/ env = "open_failed"
    /\ renv' = env
    /\ IF env = "open_failed"
       THEN rres' = Err(open_map_err("io_err"))
       ELSE LET r == from_reader(file, env)
            IN  rres' = IF r.tag = "Ok" THEN r ELSE Err(from_reader_map_err(r.err))
    /\ UNCHANGED <<file, arg, wres, wenv, completed>>

PersistIdle ==
    /\ file = Absent
    /\ arg = NoResult
    /\ wres = NoResult
    /\ wenv = "none"
    /\ rres = NoResult
    /\ renv = "none"
    /\ completed = {}

PersistInit == PersistIdle

\* Any sequence of writes of SeqStates and reads, with every failure.
PersistNext ==
    \/ \E s \in SeqStates :
         write_to_path(s, WriteFaults) /\ UNCHANGED <<enumVars, execVars, actorVars>>
    \/ \E env \in ReadEnvs :
         State_try_from(env) /\ UNCHANGED <<enumVars, execVars, actorVars>>

\* What the path holds before the round trip: nothing, a document cut
\* short by a failed write, or the document of an earlier State.
EarlierStates ==
    {State("profile_a", <<"DisableAllPersonsMFAPolicy">>, <<Alice>>),
     State("profile_b", <<>>, <<Alice, Bob>>)}

RoundTripInit ==
    /\ arg = NoResult
    /\ wres = NoResult
    /\ wenv = "none"
    /\ rres = NoResult
    /\ renv = "none"
    /\ \/ file = Absent /\ completed = {}
       \/ \E e \in EarlierStates :
            \/ file = Content(Serialize(e)) /\ completed = {e}
            \/ file = Content(SubSeq(Serialize(e), 1, Len(Serialize(e)) - 1))
               /\ completed = {}

\* One write of any State over what the path holds, then reads.
RoundTripNext ==
    \/ /\ wres = NoResult
       /\ \E s \in States : write_to_path(s, {"create_failed"})
       /\ UNCHANGED <<enumVars, execVars, actorVars>>
    \/ \E env \in ReadEnvs :
         State_try_from(env) /\ UNCHANGED <<enumVars, execVars, actorVars>>

(***************************************************************************)
(* Model::as_dyn_object (state.rs:82-97) and the strategies it builds.     *)
(* The strategies live in crate::models; they follow the design document:  *)
(* the Markov strategy starts at Login and picks the next action by        *)
(* roulette-wheel selection on the row of the current action, the Basic    *)
(* strategy repeats a fixed script.                                        *)
(***************************************************************************)
MaxSteps == 8
MaxBoxes == 3

Slots == {"s1", "s2"}
Addrs == 1..MaxBoxes

\* A probability as a number of quarters.
Weight(f) ==
    CASE f = "0.0"  -> 0
      [] f = "0.25" -> 1
      [] f = "0.5"  -> 2
      [] f = "0.75" -> 3
      [] f = "1.0"  -> 4

One == Weight("1.0")

\* The uniform draws in [0, 1), to the quarter below.
Draws == 0..(One - 1)

BadRowMatrix == [i \in 1..DISTR_MATRIX_SIZE |-> IF i = 3 THEN "0.5" ELSE CycleMatrix[i]]

\* The Model descriptions handed to as_dyn_object.
ActorModels ==
    {Basic,
     Markov(CycleMatrix, None, None),
     Markov(CycleMatrix, Some("7"), Some(<<"0.5", "1.0">>)),
     Markov(MixedMatrix, Some("42"), None),
     Markov(NaNMatrix, None, None),
     Markov(BadRowMatrix, Some("7"), None)}

\* The row of action a: entries COUNT * (a as usize) + 1 .. + COUNT.
Row(dm, a) == [j \in 1..COUNT |-> dm[COUNT * AsI32(a) + j]]

RECURSIVE RowSum(_, _)
RowSum(row, j) == IF j = 0 THEN 0 ELSE Weight(row[j]) + RowSum(row, j - 1)

\* ActorMarkov::new: the matrix has N * N finite entries and every row
\* sums to one; nothing is repaired.
ActorMarkov_new(dm, seed, nd) ==
    IF /\ Len(dm) = DISTR_MATRIX_SIZE
       /\ \A i \in 1..Len(dm) : dm[i] \in FiniteF64
       /\ \A a \in TransitionAction : RowSum(Row(dm, a), COUNT) = One
    THEN Ok([strategy |-> "Markov", cur |-> "Login", dm |-> dm, seed |-> seed,
             draws |-> 0, index |-> 0])
    ELSE Err("ActorConstruction")

\* ActorBasic::new
ActorBasic_new ==
    [strategy |-> "Basic", cur |-> "Logout", dm |-> <<>>, seed |-> None,
     draws |-> 0, index |-> 0]

RECURSIVE Pick(_, _, _, _)
\* Roulette-wheel selection: the first column (counted from 0) at which the
\* running sum exceeds the draw u; the last column if none does.
Pick(row, u, j, sum) ==
    IF sum + Weight(row[j]) > u THEN j - 1
    ELSE IF j = COUNT THEN COUNT - 1
    ELSE Pick(row, u, j + 1, sum + Weight(row[j]))

\* The fixed script of the Basic strategy.
BasicNext(a) ==
    CASE a = "Logout"        -> "Login"
      [] a = "Login"         -> "ReadProperty"
      [] a = "ReadProperty"  -> "WriteProperty"
      [] a = "WriteProperty" -> "Logout"

\* One step of a strategy object with the draw u: the sampled column index
\* is turned into an action by TransitionAction::try_from.
Step(obj, u) ==
    IF obj.strategy = "Basic"
    THEN [obj EXCEPT !.cur = BasicNext(obj.cur), !.draws = obj.draws + 1,
                     !.index = AsI32(BasicNext(obj.cur))]
    ELSE CHOOSE next \in {[obj EXCEPT !.cur = IF try_from(j).tag = "Ok"
                                               THEN try_from(j).val ELSE "InvalidOrdinal",
                                      !.draws = obj.draws + 1,
                                      !.index = j] :
                            j \in {Pick(Row(obj.dm, obj.cur), u, 1, 0)}} : TRUE

\* A fallback to the Basic strategy when the Markov constructor refuses.
as_dyn_object_repairing(m) ==
    IF m.type = "Basic" THEN Ok(ActorBasic_new)
    ELSE IF ActorMarkov_new(m.distributions_matrix, m.rng_seed,
                            m.normal_dist_mean_and_std_dev).tag = "Ok"
         THEN ActorMarkov_new(m.distributions_matrix, m.rng_seed,
                              m.normal_dist_mean_and_std_dev)
         ELSE Ok(ActorBasic_new)

\* Model::as_dyn_object(&self) with self = m: the value that is boxed, or
\* the constructor's error, passed on by `?`.
as_dyn_object(m) ==
    IF m.type = "Basic" THEN Ok(ActorBasic_new)
    ELSE ActorMarkov_new(m.distributions_matrix, m.rng_seed,
                         m.normal_dist_mean_and_std_dev)

Free == [strategy |-> "Free"]

\* A Box::new that hands out one cell for every strategy object.
BoxNewShared(h) == 1

\* Box::new: a heap cell that no live Box owns.
BoxNew(h) == CHOOSE a \in Addrs : h[a] = Free /\ \A b \in Addrs : h[b] = Free => a <= b

\* The runner builds the strategy of slot sl from the Model description:
\* as_dyn_object, then the slot takes the Box and drops the one it held.
\* On an error the slot keeps what it holds.
Build(sl) ==
    /\ \E a \in Addrs : heap[a] = Free
    /\ \E r \in {as_dyn_object(personModel[sl])} :
         /\ built' = [built EXCEPT ![sl] = IF r.tag = "Ok" THEN Ok(r.val.strategy) ELSE r]
         /\ IF r.tag = "Ok"
            THEN \E a \in {BoxNew(heap)} :
                   /\ heap' = [b \in Addrs |->
                                 IF b = a THEN r.val
                                 ELSE IF actor[sl] = Some(b) THEN Free
                                 ELSE heap[b]]
                   /\ actor' = [actor EXCEPT ![sl] = Some(a)]
            ELSE UNCHANGED <<heap, actor>>
    /\ UNCHANGED personModel

\* transition(&mut self, ..) on the strategy object of slot sl.
Transition(sl) ==
    /\ actor[sl].tag = "Some"
    /\ heap[actor[sl].val].draws < MaxSteps
    /\ \E u \in Draws :
         heap' = [heap EXCEPT ![actor[sl].val] = Step(heap[actor[sl].val], u)]
    /\ UNCHANGED <<personModel, actor, built>>

ActorIdle ==
    /\ personModel = [sl \in Slots |-> Basic]
    /\ actor = [sl \in Slots |-> None]
    /\ heap = [a \in Addrs |-> Free]
    /\ built = [sl \in Slots |-> NoResult]

ActorInit ==
    /\ personModel \in [Slots -> ActorModels]
    /\ actor = [sl \in Slots |-> None]
    /\ heap = [a \in Addrs |-> Free]
    /\ built = [sl \in Slots |-> NoResult]

ActorNext ==
    \/ \E sl \in Slots : Build(sl) /\ UNCHANGED <<enumVars, execVars, persistVars>>
    \/ \E sl \in Slots : Transition(sl) /\ UNCHANGED <<enumVars, execVars, persistVars>>

InitEnum      == EnumInit /\ ExecInit /\ PersistIdle /\ ActorIdle
InitExec      == EnumIdle /\ ExecInit /\ PersistIdle /\ ActorIdle
InitPersist   == EnumIdle /\ ExecInit /\ PersistInit /\ ActorIdle
InitRoundTrip == EnumIdle /\ ExecInit /\ RoundTripInit /\ ActorIdle
InitActor     == EnumIdle /\ ExecInit /\ PersistIdle /\ ActorInit

SpecEnum == InitEnum /\ [][EnumNext]_vars

SpecExec == InitExec /\ [][ExecNext]_vars

SpecPersist == InitPersist /\ [][PersistNext]_vars

SpecRoundTrip == InitRoundTrip /\ [][RoundTripNext]_vars

SpecActor == InitActor /\ [][ActorNext]_vars

(***************************************************************************)
(* The claims                                                              *)
(***************************************************************************)

\* C1: for every ordinal i in [0, COUNT), try_from(i) is Ok and the variant
\* it returns, cast back to an integer, is i; the assertions of
\* transition_action_try_from_test, which state the same, never fail.
Claim_C1_DecodeThenEncode ==
    /\ (decoded # NoResult /\ ordinal \in 0..(COUNT - 1))
         => (decoded.tag = "Ok" /\ AsI32(decoded.val) = ordinal)
    /\ testPassed

Witness_C1 ==
    /\ ordinal = COUNT - 1
    /\ decoded = Ok("WriteProperty")
    /\ testI = COUNT

\* C2: for every ordinal below 0 or at least COUNT, try_from returns its
\* error value (Err(()) in the code) and no variant.
Claim_C2_OutOfRangeRejected ==
    (decoded # NoResult /\ (ordinal < 0 \/ ordinal >= COUNT)) => decoded = Err("Unit")

Witness_C2 ==
    /\ ordinal = I32Max
    /\ decoded = Err("Unit")

\* C3: whenever the directory client call of an executor returned an error,
\* the executor returned Ok((TransitionResult::Error, EventRecord)) with
\* details EventDetail::Error, and not an Err.
Claim_C3_FacadeErrorAbsorbed ==
    (last.tag = "Returned" /\ last.facade = "Err")
      => /\ last.value.tag = "Ok"
         /\ last.value.val[1] = "Error"
         /\ last.value.val[2].details = "Error"

Witness_C3 ==
    /\ last.tag = "Returned"
    /\ last.facade = "Err"
    /\ last.fn = "person_get"
    /\ returned = MaxCalls

\* The detail an executor puts in the record of a successful call.
SuccessDetail(fn) ==
    CASE fn = "login"      -> login_match("Ok", 0, 0).val[2].details
      [] fn = "person_get" -> person_get_match("Ok", 0, 0).val[2].details
      [] fn = "person_set" -> person_set_match("Ok", 0, 0).val[2].details
      [] fn = "logout"     -> logout_match("Ok", 0, 0).val[2].details

\* C4: whenever the directory client call of an executor succeeded, the
\* executor returned (TransitionResult::Ok, EventRecord) and the details of
\* the record are those of no other executor's successful record.
Claim_C4_DetailIdentifiesExecutor ==
    (last.tag = "Returned" /\ last.facade = "Ok")
      => /\ last.value.tag = "Ok"
         /\ last.value.val[1] = "Ok"
         /\ last.value.val[2].details # "Error"
         /\ \A fn \in Executors \ {last.fn} :
              SuccessDetail(fn) # last.value.val[2].details

InFlight == {p \in Persons : frame[p].tag = "Awaiting"}

\* C5: every executor call that returned produced exactly one EventRecord,
\* whatever the directory client answered; the record's start is the
\* instant taken before the client call and its duration is the instant
\* taken after the call minus that start.
Claim_C5_OneRecordPerInvocation ==
    /\ produced = returned
    /\ invoked = returned + Cardinality(InFlight)
    /\ \A p \in InFlight : frame[p].start <= now
    /\ last.tag = "Returned"
         => /\ last.value.tag = "Ok"
            /\ last.value.val[2].start = last.start
            /\ last.value.val[2].duration = last.end - last.start

Witness_C5 ==
    /\ last.tag = "Returned"
    /\ last.facade = "Err"
    /\ last.value.val[2].duration > 0
    /\ last.value.val[2].start > 0
    /\ produced = MaxCalls

IsStateDocument(d) == \E s \in SeqStates : ValidState(s) /\ d = Serialize(s)

Claim_C10_NoPartialFileAccepted ==
    rres.tag = "Ok" => rres.val \in completed

Witness_C10 ==
    /\ rres.tag = "Ok"
    /\ wenv = "create_failed"
    /\ arg # rres.val
    /\ Cardinality(completed) >= 2

\* What ActorMarkov::new answers for the description m.
Constructed(m) ==
    ActorMarkov_new(m.distributions_matrix, m.rng_seed, m.normal_dist_mean_and_std_dev)

C8_Results ==
    \A sl \in Slots :
      built[sl] # NoResult
        => IF personModel[sl].type = "Basic" THEN built[sl] = Ok("Basic")
           ELSE IF Constructed(personModel[sl]).tag = "Ok" THEN built[sl] = Ok("Markov")
           ELSE built[sl] = Constructed(personModel[sl])

C8_NoAlias ==
    \A s, t \in Slots :
      (s # t /\ actor[s].tag = "Some" /\ actor[t].tag = "Some") => actor[s].val # actor[t].val

C8_Step ==
    /\ personModel' = personModel
    /\ \A sl \in Slots :
         actor'[sl] # actor[sl]
           => /\ heap'[actor'[sl].val].draws = 0
              /\ \A t \in Slots \ {sl} :
                   actor[t].tag = "Some" => heap'[actor[t].val] = heap[actor[t].val]
    /\ \A sl \in Slots :
         (actor[sl].tag = "Some" /\ actor'[sl] = actor[sl]
            /\ heap'[actor[sl].val] # heap[actor[sl].val])
           => \A t \in Slots \ {sl} :
                actor[t].tag = "Some" => heap'[actor[t].val] = heap[actor[t].val]

\* C8: as_dyn_object on Basic is Ok; on Markov it is Ok exactly when the
\* constructor accepts and otherwise the constructor's error; no call
\* changes the Model description; the object of a call is new (in its
\* initial state, in a cell of its own) and a step of one slot's object
\* changes no other slot's object.
Claim_C8_Factory == [](C8_Results /\ C8_NoAlias) /\ [][C8_Step]_vars

Witness_C8 ==
    /\ built["s1"] = Err("ActorConstruction")
    /\ actor["s1"] = None
    /\ built["s2"] = Ok("Markov")
    /\ heap[actor["s2"].val].draws = 2

\* The eight actions of the deterministic cycle, in order.
CycleSequence ==
    <<"ReadProperty", "WriteProperty", "Logout", "Login",
      "ReadProperty", "WriteProperty", "Logout", "Login">>

\* C9: a Markov strategy built on the cycle matrix starts at Login and its
\* k-th step, k in 1..8, yields the k-th action of the cycle for every
\* draw; no step of any strategy yields an index outside [0, COUNT).
Claim_C9_DeterministicCycle ==
    \A a \in Addrs :
      heap[a].strategy # "Free"
        => /\ heap[a].index \in 0..(COUNT - 1)
           /\ (heap[a].strategy = "Markov" /\ heap[a].dm = CycleMatrix)
                => /\ heap[a].draws = 0 => heap[a].cur = "Login"
                   /\ heap[a].draws \in 1..Len(CycleSequence)
                        => heap[a].cur = CycleSequence[heap[a].draws]

Witness_C9 ==
    \E a \in Addrs :
      /\ heap[a].strategy = "Markov"
      /\ heap[a].dm = CycleMatrix
      /\ heap[a].draws = Len(CycleSequence)
      /\ heap[a].cur = "Login"

====
